---- MODULE Spec2Model ----
(***************************************************************************)
(* The Epic FHIR backend integration: three Express applications           *)
(* (server.js, files.js, file-uploads.js).  Every inbound request builds a *)
(* client assertion, exchanges it for an access token and forwards calls   *)
(* to the FHIR server.  A request is a small state machine whose steps are *)
(* the points where its handler awaits the network.                        *)
(***************************************************************************)
EXTENDS Integers, Sequences, FiniteSets, TLC

VARIABLES
    pc,          \* pc[r]: where the handler of request r is suspended
    req,         \* req[r]: the inbound request (route and caller input)
    accessToken, \* accessToken[r]: what getAccessToken() returned to r
    calls,       \* calls[r]: the upstream calls r has issued, in order
    replies,     \* replies[r]: how the calls of r that completed ended, in order
    res,         \* res[r]: the responses sent for r, in order
    jwtBuilt,    \* number of assertions generateJWT() has built
    issued       \* number of access tokens the authorization server issued

vars == <<pc, req, accessToken, calls, replies, res, jwtBuilt, issued>>

(* ------------------------------ bounds -------------------------------- *)
MaxRequests == 2   \* inbound requests, all of which may be in flight at once
MaxJti == 2        \* distinct values Math.random() may give a jti
MaxUrlLen == 2     \* code units of a documentUrl in SpecRoundTrip

Requests == 1..MaxRequests

(* ----------------------- JavaScript values ---------------------------- *)
\* An optional value: {} is undefined (or null), {v} is the value v.
None == {}
Some(v) == {v}
Get(o) == CHOOSE v \in o : TRUE

\* !x for an optional string held as a TLA+ string
FalsyStr(o) == o = None \/ o = Some("")
\* !x for an optional string held as a sequence of characters or code units
FalsySeq(o) == o = None \/ o = Some(<<>>)

\* JSON.stringify of an object literal: a property whose value is undefined
\* is left out, every other property is kept.
Json(o) == [k \in {k \in DOMAIN o : o[k] # None} |-> Get(o[k])]

Last(s) == s[Len(s)]

(* ------------- Buffer.from(s).toString('base64') and back -------------- *)
\* A string is a sequence of UTF-16 code units.  55296..56319 are the high
\* surrogates, 56320..57343 the low surrogates.
IsHigh(c) == c >= 55296 /\ c <= 56319
IsLow(c) == c >= 56320 /\ c <= 57343

\* The UTF-8 bytes of one code point.
Utf8Bytes(cp) ==
    IF cp < 128 THEN <<cp>>
    ELSE IF cp < 2048 THEN <<192 + (cp \div 64), 128 + (cp % 64)>>
    ELSE IF cp < 65536
         THEN <<224 + (cp \div 4096), 128 + ((cp \div 64) % 64), 128 + (cp % 64)>>
    ELSE <<240 + (cp \div 262144), 128 + ((cp \div 4096) % 64),
           128 + ((cp \div 64) % 64), 128 + (cp % 64)>>

\* Buffer.from(string): the UTF-8 encoding.  A surrogate pair is one code
\* point; a surrogate that is not part of a pair is encoded as U+FFFD.
RECURSIVE Utf8Encode(_)
Utf8Encode(s) ==
    IF s = <<>> THEN <<>>
    ELSE IF IsHigh(s[1]) /\ Len(s) >= 2 /\ IsLow(s[2])
         THEN Utf8Bytes(65536 + ((s[1] - 55296) * 1024) + (s[2] - 56320))
                  \o Utf8Encode(SubSeq(s, 3, Len(s)))
    ELSE IF IsHigh(s[1]) \/ IsLow(s[1])
         THEN Utf8Bytes(65533) \o Utf8Encode(Tail(s))
    ELSE Utf8Bytes(s[1]) \o Utf8Encode(Tail(s))

\* buffer.toString('base64'): a sequence of sextets 0..63, 64 is the pad '='.
RECURSIVE Base64Encode(_)
Base64Encode(b) ==
    IF Len(b) = 0 THEN <<>>
    ELSE IF Len(b) = 1 THEN <<b[1] \div 4, (b[1] % 4) * 16, 64, 64>>
    ELSE IF Len(b) = 2
         THEN <<b[1] \div 4, ((b[1] % 4) * 16) + (b[2] \div 16), (b[2] % 16) * 4, 64>>
    ELSE <<b[1] \div 4, ((b[1] % 4) * 16) + (b[2] \div 16),
           ((b[2] % 16) * 4) + (b[3] \div 64), b[3] % 64>>
             \o Base64Encode(SubSeq(b, 4, Len(b)))

\* The sextets before the first pad.
RECURSIVE BeforePad(_)
BeforePad(s) ==
    IF s = <<>> \/ s[1] = 64 THEN <<>> ELSE <<s[1]>> \o BeforePad(Tail(s))

RECURSIVE SextetsToBytes(_)
SextetsToBytes(t) ==
    IF Len(t) < 2 THEN <<>>
    ELSE IF Len(t) = 2 THEN <<(t[1] * 4) + (t[2] \div 16)>>
    ELSE IF Len(t) = 3
         THEN <<(t[1] * 4) + (t[2] \div 16), ((t[2] % 16) * 16) + (t[3] \div 4)>>
    ELSE <<(t[1] * 4) + (t[2] \div 16), ((t[2] % 16) * 16) + (t[3] \div 4),
           ((t[3] % 4) * 64) + t[4]>> \o SextetsToBytes(SubSeq(t, 5, Len(t)))

\* Buffer.from(s, 'base64'): decoding stops at the first pad.
Base64Decode(s) == SextetsToBytes(BeforePad(s))

\* The length of the UTF-8 sequence a lead byte announces, 0 for no lead.
Utf8Need(b) ==
    IF b < 128 THEN 1
    ELSE IF b >= 194 /\ b <= 223 THEN 2
    ELSE IF b >= 224 /\ b <= 239 THEN 3
    ELSE IF b >= 240 /\ b <= 244 THEN 4
    ELSE 0

\* Whether b may be the i-th byte (i >= 2) after lead byte b1: the second
\* byte's range excludes overlong forms, surrogates and values > U+10FFFF.
Utf8Cont(b1, i, b) ==
    IF i = 2
    THEN /\ b >= (IF b1 = 224 THEN 160 ELSE IF b1 = 240 THEN 144 ELSE 128)
         /\ b <= (IF b1 = 237 THEN 159 ELSE IF b1 = 244 THEN 143 ELSE 191)
    ELSE b >= 128 /\ b <= 191

\* How many of the bytes after the lead b[1] continue its sequence.
RECURSIVE Utf8Run(_, _)
Utf8Run(b, i) ==
    IF i > Utf8Need(b[1]) \/ i > Len(b) \/ ~Utf8Cont(b[1], i, b[i]) THEN 0
    ELSE 1 + Utf8Run(b, i + 1)

\* The code units of one code point.
Utf16Units(cp) ==
    IF cp < 65536 THEN <<cp>>
    ELSE <<55296 + ((cp - 65536) \div 1024), 56320 + ((cp - 65536) % 1024)>>

\* buffer.toString('utf-8'): an ill-formed subsequence decodes to U+FFFD.
RECURSIVE Utf8Decode(_)
Utf8Decode(b) ==
    IF b = <<>> THEN <<>>
    ELSE LET n == Utf8Need(b[1])
             k == Utf8Run(b, 2)
             cp == IF n = 1 THEN b[1]
                   ELSE IF n = 2 THEN ((b[1] - 192) * 64) + (b[2] - 128)
                   ELSE IF n = 3
                        THEN ((b[1] - 224) * 4096) + ((b[2] - 128) * 64) + (b[3] - 128)
                   ELSE ((b[1] - 240) * 262144) + ((b[2] - 128) * 4096)
                            + ((b[3] - 128) * 64) + (b[4] - 128)
         IN  IF n >= 1 /\ k = n - 1
             THEN Utf16Units(cp) \o Utf8Decode(SubSeq(b, n + 1, Len(b)))
             ELSE <<65533>> \o Utf8Decode(SubSeq(b, k + 2, Len(b)))

\* Buffer.from(documentUrl, 'latin1').toString('base64'): one byte per code
\* unit, its low eight bits.
EncodeDocumentUrlLatin1(documentUrl) ==
    Base64Encode([i \in 1..Len(documentUrl) |-> documentUrl[i] % 256])

\* file-uploads.js:91
EncodeDocumentUrl(documentUrl) == Base64Encode(Utf8Encode(documentUrl))
\* file-uploads.js:161
DecodeBinaryData(data) == Utf8Decode(Base64Decode(data))

\* locationHeader.split('/').shift(): what precedes the first '/'.
RECURSIVE SplitShift(_)
SplitShift(s) ==
    IF s = <<>> \/ s[1] = "/" THEN <<>> ELSE <<s[1]>> \o SplitShift(Tail(s))

\* locationHeader.split('/').pop(): what follows the last '/'.
RECURSIVE SplitPop(_)
SplitPop(s) ==
    IF s = <<>> \/ Last(s) = "/" THEN <<>>
    ELSE Append(SplitPop(SubSeq(s, 1, Len(s) - 1)), Last(s))
(* ------------------------------ routes -------------------------------- *)
ServerRoutes ==
    {"GET /patient", "POST /patient-match", "GET /patient-search",
     "GET /appointments", "GET /scheduled-surgery/:id",
     "POST /appointment-find", "POST /observation"}
FilesRoutes == {"GET /bulk-export", "GET /bulk-status", "GET /bulk-download"}
UploadsRoutes == {"POST /upload-url", "GET /document/:documentId"}
Routes == ServerRoutes \cup FilesRoutes \cup UploadsRoutes

(* --------------------------- caller input ----------------------------- *)
\* An inbound query string: the sequence of its name=value pairs.
Queries ==
    {<<<<"family", "Lopez">>, <<"gender", "Female">>>>,
     <<<<"family", "Lopez">>, <<"family", "Mychart">>>>}

\* The code units a documentUrl is made of: 'h', U+00E9, a high and a low
\* surrogate.
CodeUnits == {104, 233, 55357, 56832}

RECURSIVE StringsUpTo(_)
StringsUpTo(n) ==
    IF n = 0 THEN {<<>>}
    ELSE LET shorter == StringsUpTo(n - 1)
         IN  shorter \cup {Append(s, c) : s \in shorter, c \in CodeUnits}

\* The documentUrl values of the requests of Spec.
DocumentUrls == {<<>>, <<104>>}

\* The requests of server.js.
ServerInbound ==
    {[route |-> "GET /patient"]}
    \cup {[route |-> rt, body |-> "FhirResource"] :
            rt \in {"POST /patient-match", "POST /appointment-find",
                    "POST /observation"}}
    \cup {[route |-> rt, query |-> q] :
            rt \in {"GET /patient-search", "GET /appointments"}, q \in Queries}
    \cup {[route |-> "GET /scheduled-surgery/:id", id |-> "A1"]}

\* The requests of files.js.
FilesInbound ==
    {[route |-> "GET /bulk-export", groupId |-> g, types |-> t] :
        g \in {None, Some("G1")}, t \in {None, Some("Patient")}}
    \cup {[route |-> "GET /bulk-status", statusUrl |-> u] :
            u \in {None, Some("https://epic/status/1")}}
    \cup {[route |-> "GET /bulk-download", fileUrl |-> u] :
            u \in {None, Some("https://epic/file/1")}}

\* The requests of file-uploads.js whose documentUrl is absent or in urls.
UploadsInbound(urls) ==
    {[route |-> "POST /upload-url", documentUrl |-> d, patientId |-> p,
      encounterId |-> e] :
        d \in {None} \cup {Some(u) : u \in urls},
        p \in {None, Some("P1")}, e \in {None, Some("E1")}}
    \cup {[route |-> "GET /document/:documentId", documentId |-> "d1"]}

Inbound == ServerInbound \cup FilesInbound \cup UploadsInbound(DocumentUrls)

NoRequest == [route |-> "none"]

(* ------------------------ upstream outcomes --------------------------- *)
\* What an axios call can end in other than a 2xx response: a non-2xx
\* response with a body (possibly empty), or no response at all.
FailureOutcomes ==
    {[kind |-> "http_error", data |-> d] : d \in {"OperationOutcome", ""}}
    \cup {[kind |-> "network_error"]}

\* The error axios rejects with.
AxiosError(outcome) ==
    IF outcome.kind = "http_error"
    THEN [message |-> "Request failed with status code",
          response |-> Some([data |-> outcome.data])]
    ELSE [message |-> "Network Error", response |-> None]

\* The error of reading a property of undefined.
TypeError == [message |-> "Cannot read properties of undefined", response |-> None]

\* A 2xx answer of the token endpoint: with a token the authorization server
\* has not issued before, or without the access_token field.
TokenOkOutcomes ==
    {[kind |-> "ok", access_token |-> t] : t \in {Some(issued + 1), None}}

\* The Location header values of a DocumentReference create.
LocationHeaders ==
    {None, Some(<<>>), Some(<<"D", "R", "/", "1", "2">>),
     Some(<<"D", "R", "/">>)}

\* The bodies of a DocumentReference read.
DocumentReferenceBodies ==
    {[content |-> c] :
        c \in {None, Some(<<>>), Some(<<[attachment |-> None]>>),
               Some(<<[attachment |-> Some([url |-> None])]>>),
               Some(<<[attachment |-> Some([url |-> Some("")])]>>),
               Some(<<[attachment |-> Some([url |-> Some("Binary/b1")])]>>)}}

\* The bodies of a Binary read whose data is absent or in datas.
EmptyBody == [empty |-> TRUE]
BinaryBodies(datas) ==
    {EmptyBody, [resourceType |-> "Binary"]}
    \cup {[resourceType |-> "Binary", data |-> d] : d \in datas}

\* The Binary data the FHIR server holds: what a create of some request
\* has stored, and one value stored by another client.
StoredData ==
    {<<26, 6, 21, 44>>}
    \cup {Get(calls[r][2].body).content[1].attachment.data :
            r \in {q \in Requests : /\ req[q].route = "POST /upload-url"
                                    /\ Len(calls[q]) >= 2}}

\* The 2xx answers of the FHIR server to the downstream call of a route.
FhirOkOutcomes(route) ==
    CASE route = "POST /upload-url" ->
            {[kind |-> "ok", location |-> l] : l \in LocationHeaders}
      [] route = "GET /document/:documentId" ->
            {[kind |-> "ok", data |-> b] : b \in DocumentReferenceBodies}
      [] route = "GET /bulk-export" ->
            {[kind |-> "ok", contentLocation |-> l] :
                l \in {None, Some("https://epic/status/1")}}
      [] route = "GET /bulk-download" -> {[kind |-> "ok"]}
      [] OTHER -> {[kind |-> "ok", data |-> "FhirResult"]}

BinaryOkOutcomes ==
    {[kind |-> "ok", data |-> b] : b \in BinaryBodies(StoredData \cup {<<>>})}

(* --------------------- assertion and token request -------------------- *)
\* generateJWT(): the payload signed with RS256.  n is the ordinal of the
\* build, which tells two assertions apart even when their jti collide.
\* The key read at startup is taken to be a usable RSA key, so jwt.sign()
\* returns; a process whose key cannot be read never serves a request.
generateJWT(j, n) ==
    [iss |-> "ISSUER", sub |-> "CLIENT_ID", aud |-> "EPIC_TOKEN_URL",
     exp |-> "now + 300", jti |-> j, alg |-> "RS256", built |-> n]

\* The axios.post of getAccessToken().
TokenRequest(jwtToken) ==
    [kind |-> "token", method |-> "POST", base |-> "EPIC_TOKEN_URL",
     path |-> <<>>, query |-> <<>>, auth |-> None,
     headers |-> [contentType |-> "application/x-www-form-urlencoded"],
     body |-> Some([grant_type |-> "client_credentials",
                    client_assertion_type |->
                        "urn:ietf:params:oauth:client-assertion-type:jwt-bearer",
                    client_assertion |-> jwtToken])]

\* A token cache in getAccessToken(): once a token was issued, the first one
\* is returned to every later request.
AccessTokenCached(outcome) ==
    IF issued >= 1 THEN Some(1) ELSE outcome.access_token

\* return response.data.access_token
AccessTokenOf(outcome) == outcome.access_token

(* --------------------------- query strings ---------------------------- *)
\* The parameter names of a query string, each once, in order of first use.
RECURSIVE QsKeys(_)
QsKeys(q) ==
    IF q = <<>> THEN <<>>
    ELSE LET before == QsKeys(SubSeq(q, 1, Len(q) - 1))
         IN  IF \E i \in 1..Len(before) : before[i] = Last(q)[1]
             THEN before ELSE Append(before, Last(q)[1])

\* The values a query string gives a name, in order.
RECURSIVE QsValues(_, _)
QsValues(q, name) ==
    IF q = <<>> THEN <<>>
    ELSE (IF q[1][1] = name THEN <<q[1][2]>> ELSE <<>>) \o QsValues(Tail(q), name)

\* String(v) of a req.query value followed by form-urlencoding: the values of
\* a repeated name are joined by ',', which is encoded as %2C.
RECURSIVE JoinComma(_)
JoinComma(vs) ==
    IF Len(vs) <= 1 THEN vs ELSE <<vs[1], "%2C">> \o JoinComma(Tail(vs))

\* new URLSearchParams(req.query).toString(): one name=value per name.
URLSearchParamsString(q) ==
    [i \in 1..Len(QsKeys(q)) |->
        <<QsKeys(q)[i], JoinComma(QsValues(q, QsKeys(q)[i]))>>]

(* ------------------------- downstream calls --------------------------- *)
\* Every downstream call built on the R4 base, the $find operation too.
FhirCallR4Only(method, base, path, query, token, headers, body) ==
    [kind |-> "fhir", method |-> method, base |-> "R4", path |-> path,
     query |-> query, auth |-> token, headers |-> headers, body |-> body]

\* An axios call to the FHIR server: base is the version base the URL is
\* built on, or "" when the URL is the caller's.
FhirCall(method, base, path, query, token, headers, body) ==
    [kind |-> "fhir", method |-> method, base |-> base, path |-> path,
     query |-> query, auth |-> token, headers |-> headers, body |-> body]

JsonHeaders == [accept |-> "application/json", contentType |-> "application/json"]

\* The docReference of POST /upload-url.
DocReference(rq) ==
    Json([resourceType |-> Some("DocumentReference"),
          status |-> Some("current"),
          type |-> Some([coding |-> <<[system |-> "http://loinc.org",
                                       code |-> "11506-3",
                                       display |-> "Scanned Document"]>>]),
          subject |-> Some([reference |-> <<"Patient/", Get(rq.patientId)>>]),
          date |-> Some("now"),
          content |-> Some(<<[attachment |->
                                [contentType |-> "text/plain",
                                 data |-> EncodeDocumentUrl(Get(rq.documentUrl))]]>>),
          context |-> IF FalsyStr(rq.encounterId) THEN None
                      ELSE Some([encounter |->
                                   <<[reference |->
                                        <<"Encounter/", Get(rq.encounterId)>>]>>])])

\* value || fallback
OrDefault(o, d) == IF FalsyStr(o) THEN d ELSE Get(o)

\* The downstream call a route issues once it holds accessToken.
DownstreamCall(rq, token) ==
    CASE rq.route = "GET /patient" ->
            FhirCall("GET", "R4", <<"Patient", "erXuFYUfucBZaryVksYEcMg3">>, <<>>,
                     token, [accept |-> "application/json"], None)
      [] rq.route = "POST /patient-match" ->
            FhirCall("POST", "R4", <<"Patient", "$match">>, <<>>, token,
                     JsonHeaders, Some(rq.body))
      [] rq.route = "GET /patient-search" ->
            FhirCall("GET", "R4", <<"Patient">>, URLSearchParamsString(rq.query),
                     token, [accept |-> "application/json"], None)
      [] rq.route = "GET /appointments" ->
            FhirCall("GET", "R4", <<"Appointment">>, URLSearchParamsString(rq.query),
                     token, [accept |-> "application/json"], None)
      [] rq.route = "GET /scheduled-surgery/:id" ->
            FhirCall("GET", "R4", <<"Appointment", rq.id>>, <<>>, token,
                     [accept |-> "application/json"], None)
      [] rq.route = "POST /appointment-find" ->
            FhirCall("POST", "STU3", <<"Appointment", "$find">>, <<>>, token,
                     JsonHeaders, Some(rq.body))
      [] rq.route = "POST /observation" ->
            FhirCall("POST", "R4", <<"Observation">>, <<>>, token, JsonHeaders,
                     Some(rq.body))
      [] rq.route = "GET /bulk-export" ->
            FhirCall("GET", "R4",
                     <<"Group", OrDefault(rq.groupId, "default-group-id"), "$export">>,
                     <<<<"_type",
                         <<OrDefault(rq.types, "Patient,Observation,Encounter")>>>>>>,
                     token,
                     [accept |-> "application/fhir+json", prefer |-> "respond-async"],
                     None)
      [] rq.route = "GET /bulk-status" ->
            FhirCall("GET", "", <<Get(rq.statusUrl)>>, <<>>, token,
                     [accept |-> "application/json"], None)
      [] rq.route = "GET /bulk-download" ->
            FhirCall("GET", "", <<Get(rq.fileUrl)>>, <<>>, token,
                     [responseType |-> "stream"], None)
      [] rq.route = "POST /upload-url" ->
            FhirCall("POST", "R4", <<"DocumentReference">>, <<>>, token,
                     [contentType |-> "application/json"], Some(DocReference(rq)))
      [] rq.route = "GET /document/:documentId" ->
            FhirCall("GET", "R4", <<"DocumentReference", rq.documentId>>, <<>>,
                     token, [none |-> TRUE], None)

\* Step 3 of GET /document/:documentId.
BinaryCall(binaryReference, token) ==
    FhirCall("GET", "R4", <<binaryReference>>, <<>>, token, [none |-> TRUE], None)
(* ----------------------------- responses ------------------------------ *)
\* res.status(status).json(body)
Response(status, body) == [status |-> status, body |-> Json(body)]

\* What a handler does when it stops running: it sends a response, issues a
\* call and awaits it, or starts piping the upstream stream to the caller.
Respond(response) == [do |-> "respond", response |-> response]
Await(at, call) == [do |-> "call", at |-> at, call |-> call]
Pipe(response) == [do |-> "pipe", response |-> response]

(* ------------------------------ server.js ----------------------------- *)
ServerOkMessage(route) ==
    CASE route = "GET /patient" -> "Data fetched successfully"
      [] route = "POST /patient-match" ->
            "Patient match results retrieved successfully"
      [] route = "GET /patient-search" ->
            "Patient search results retrieved successfully"
      [] route = "GET /appointments" ->
            "Appointment search results retrieved successfully"
      [] route = "GET /scheduled-surgery/:id" ->
            "Scheduled surgery appointment retrieved successfully"
      [] route = "POST /appointment-find" ->
            "Appointment $find results retrieved successfully"
      [] route = "POST /observation" -> "Observation created successfully"

ServerErrMessage(route) ==
    CASE route = "GET /patient" -> "Error fetching data"
      [] route = "POST /patient-match" -> "Error matching patient"
      [] route = "GET /patient-search" -> "Error searching patient"
      [] route = "GET /appointments" -> "Error retrieving appointments"
      [] route = "GET /scheduled-surgery/:id" ->
            "Error retrieving scheduled surgery appointment"
      [] route = "POST /appointment-find" -> "Error finding appointment slots"
      [] route = "POST /observation" -> "Error creating observation"

\* The try block of a server.js route after its downstream call resolved.
ServerSuccess(rq, outcome) ==
    Respond(Response(IF rq.route = "POST /observation" THEN 201 ELSE 200,
                     [success |-> Some(TRUE),
                      message |-> Some(ServerOkMessage(rq.route)),
                      data |-> Some(outcome.data)]))

\* The catch block of a server.js route.
ServerCatch(rq, error) ==
    Respond(Response(500,
                     [success |-> Some(FALSE),
                      message |-> Some(ServerErrMessage(rq.route)),
                      error |-> Some(IF rq.route = "GET /patient" THEN error.message
                                     ELSE IF error.response # None
                                          THEN Get(error.response).data
                                     ELSE error.message)]))

(* ------------------------------ files.js ------------------------------ *)
FilesErrMessage(route) ==
    CASE route = "GET /bulk-export" -> "Error initiating bulk export"
      [] route = "GET /bulk-status" -> "Error checking export status"
      [] route = "GET /bulk-download" -> "Error downloading bulk data"

\* The parameter check of GET /bulk-status and GET /bulk-download: the 400
\* response when the parameter is missing.
FilesValidation(rq) ==
    CASE rq.route = "GET /bulk-status" /\ FalsyStr(rq.statusUrl) ->
            Some(Response(400, [success |-> Some(FALSE),
                                message |-> Some("Missing statusUrl parameter")]))
      [] rq.route = "GET /bulk-download" /\ FalsyStr(rq.fileUrl) ->
            Some(Response(400, [success |-> Some(FALSE),
                                message |-> Some("Missing fileUrl parameter")]))
      [] OTHER -> None

\* The try block of a files.js route after its downstream call resolved.
FilesSuccess(rq, outcome) ==
    CASE rq.route = "GET /bulk-export" ->
            Respond(Response(200, [success |-> Some(TRUE),
                                   message |-> Some("Bulk data export initiated"),
                                   statusUrl |-> outcome.contentLocation]))
      [] rq.route = "GET /bulk-status" ->
            Respond(Response(200, [success |-> Some(TRUE),
                                   message |-> Some("Export status retrieved"),
                                   data |-> Some(outcome.data)]))
      [] rq.route = "GET /bulk-download" ->
            Pipe([status |-> 200,
                  body |-> [contentDisposition |->
                                "attachment; filename=bulk_data.ndjson"]])

\* The catch block of a files.js route.
FilesCatch(rq, error) ==
    Respond(Response(500, [success |-> Some(FALSE),
                           message |-> Some(FilesErrMessage(rq.route)),
                           error |-> Some(error.message)]))

(* --------------------------- file-uploads.js -------------------------- *)
\* error.response?.data || error.message
ErrorDataOrMessage(error) ==
    IF error.response # None /\ Get(error.response).data # ""
    THEN Get(error.response).data ELSE error.message

\* The catch block of the authenticate middleware.
AuthenticateCatch(error) ==
    Respond(Response(500, [success |-> Some(FALSE),
                           message |-> Some("Authentication failed"),
                           error |-> Some(error.message)]))

\* The parameter check of POST /upload-url.
UploadsValidation(rq) ==
    IF rq.route = "POST /upload-url"
       /\ (FalsySeq(rq.documentUrl) \/ FalsyStr(rq.patientId))
    THEN Some(Response(400, [error |->
                                Some("documentUrl and patientId are required")]))
    ELSE None

\* The catch block of a file-uploads.js route.
UploadsCatch(rq, error) ==
    Respond(Response(500,
                     [success |-> Some(FALSE),
                      message |-> Some(IF rq.route = "POST /upload-url"
                                       THEN "Error uploading document URL"
                                       ELSE "Error retrieving document"),
                      error |-> Some(ErrorDataOrMessage(error))]))

\* locationHeader ? locationHeader.split('/').pop() : null
DocumentIdOf(locationHeader) ==
    IF FalsySeq(locationHeader) THEN None ELSE Some(SplitPop(Get(locationHeader)))

\* POST /upload-url after the create resolved.
UploadUrlSuccess(rq, outcome) ==
    LET documentId == DocumentIdOf(outcome.location)
    IN  IF FalsySeq(documentId)
        THEN Respond(Response(500,
                              [success |-> Some(FALSE),
                               message |-> Some("Epic did not return a Document ID")]))
        ELSE Respond(Response(200, [success |-> Some(TRUE),
                                    documentId |-> documentId]))

\* Steps 2 and 3 without the test of binaryReference: the Binary read is
\* issued whatever the DocumentReference holds.
DocumentReferenceReadUnchecked(rq, outcome, token) ==
    LET attachments == IF outcome.data.content = None THEN <<>>
                       ELSE Get(outcome.data.content)
        found == /\ Len(attachments) > 0
                 /\ attachments[1].attachment # None
                 /\ ~FalsyStr(Get(attachments[1].attachment).url)
    IN  Await("binary",
              BinaryCall(IF found THEN Get(Get(attachments[1].attachment).url)
                         ELSE "null", token))

\* GET /document/:documentId after the DocumentReference read resolved
\* (steps 2 and 3).
DocumentReferenceRead(rq, outcome, token) ==
    LET attachments == IF outcome.data.content = None THEN <<>>
                       ELSE Get(outcome.data.content)
    IN  IF Len(attachments) > 0 /\ attachments[1].attachment = None
        THEN UploadsCatch(rq, TypeError)
        ELSE LET binaryReference ==
                     IF Len(attachments) > 0
                     THEN Get(attachments[1].attachment).url ELSE None
             IN  IF FalsyStr(binaryReference)
                 THEN Respond(Response(404,
                        [success |-> Some(FALSE),
                         message |->
                           Some("No Binary reference found in DocumentReference")]))
                 ELSE Await("binary", BinaryCall(Get(binaryReference), token))

\* GET /document/:documentId after the Binary read resolved (steps 4 and 5).
BinaryRead(rq, outcome) ==
    IF \/ outcome.data = EmptyBody
       \/ "data" \notin DOMAIN outcome.data
       \/ outcome.data.data = <<>>
    THEN Respond(Response(500,
                          [success |-> Some(FALSE),
                           message |-> Some("Binary resource does not contain data"),
                           epicResponse |-> Some(outcome.data)]))
    ELSE Respond(Response(200, [success |-> Some(TRUE),
                                documentUrl |->
                                    Some(DecodeBinaryData(outcome.data.data))]))

(* ------------------------- the route handlers ------------------------- *)
\* The check of the required parameters, where a route has one.
Validation(rq) ==
    IF rq.route \in FilesRoutes THEN FilesValidation(rq)
    ELSE IF rq.route \in UploadsRoutes THEN UploadsValidation(rq)
    ELSE None

\* A handler from the point where getAccessToken() returned token.
AfterToken(rq, token) ==
    IF Validation(rq) # None THEN Respond(Get(Validation(rq)))
    ELSE Await("fhir", DownstreamCall(rq, token))

\* A handler from the point where its first downstream call resolved.
AfterFhir(rq, outcome, token) ==
    IF rq.route \in ServerRoutes THEN ServerSuccess(rq, outcome)
    ELSE IF rq.route \in FilesRoutes THEN FilesSuccess(rq, outcome)
    ELSE IF rq.route = "POST /upload-url" THEN UploadUrlSuccess(rq, outcome)
    ELSE DocumentReferenceRead(rq, outcome, token)

\* A catch block that issues the downstream call of the route again.
RouteCatchRetry(rq, error) == Await("fhir", DownstreamCall(rq, None))

\* The catch block a rejected downstream call lands in.
RouteCatch(rq, error) ==
    IF rq.route \in ServerRoutes THEN ServerCatch(rq, error)
    ELSE IF rq.route \in FilesRoutes THEN FilesCatch(rq, error)
    ELSE UploadsCatch(rq, error)

\* The catch block a rejected token exchange lands in: getAccessToken()
\* rethrows (server.js, files.js) or lets the rejection through
\* (file-uploads.js, where authenticate catches it).
TokenCatch(rq, error) ==
    IF rq.route \in UploadsRoutes THEN AuthenticateCatch(error)
    ELSE RouteCatch(rq, error)
(* ------------------------------ actions ------------------------------- *)
Init ==
    /\ pc = [r \in Requests |-> "idle"]
    /\ req = [r \in Requests |-> NoRequest]
    /\ accessToken = [r \in Requests |-> None]
    /\ calls = [r \in Requests |-> <<>>]
    /\ replies = [r \in Requests |-> <<>>]
    /\ res = [r \in Requests |-> <<>>]
    /\ jwtBuilt = 0
    /\ issued = 0

\* A handler that runs on after it sent a response (a response without its
\* return): r stays where it was, so the answer it was awaiting is handled
\* again.
ApplyNoReturn(r, step) ==
    /\ pc' = [pc EXCEPT ![r] = IF step.do = "respond" THEN @
                               ELSE IF step.do = "call" THEN step.at
                               ELSE "stream"]
    /\ calls' = [calls EXCEPT ![r] = IF step.do = "call" THEN Append(@, step.call)
                                     ELSE @]
    /\ res' = [res EXCEPT ![r] = IF step.do = "call" THEN @
                                 ELSE Append(@, step.response)]

\* The handler of r runs until it sends a response or awaits a call.
Apply(r, step) ==
    /\ pc' = [pc EXCEPT ![r] = IF step.do = "respond" THEN "done"
                               ELSE IF step.do = "call" THEN step.at
                               ELSE "stream"]
    /\ calls' = [calls EXCEPT ![r] = IF step.do = "call" THEN Append(@, step.call)
                                     ELSE @]
    /\ res' = [res EXCEPT ![r] = IF step.do = "call" THEN @
                                 ELSE Append(@, step.response)]

Replied(r, outcome) == replies' = [replies EXCEPT ![r] = Append(@, outcome)]

\* A request of the set inbound arrives: its handler (or the authenticate
\* middleware) calls getAccessToken(), which builds an assertion and posts
\* it to the token endpoint.  Requests take their numbers in order of arrival.
ReceiveFrom(r, inbound) ==
    /\ pc[r] = "idle"
    /\ \A q \in Requests : q < r => pc[q] # "idle"
    /\ \E rq \in inbound, j \in 1..MaxJti :
         /\ req' = [req EXCEPT ![r] = rq]
         /\ calls' = [calls EXCEPT
                        ![r] = <<TokenRequest(generateJWT(j, jwtBuilt + 1))>>]
    /\ jwtBuilt' = jwtBuilt + 1
    /\ pc' = [pc EXCEPT ![r] = "token"]
    /\ UNCHANGED <<accessToken, replies, res, issued>>

Receive(r) == ReceiveFrom(r, Inbound)

\* The token endpoint answers 2xx: getAccessToken() returns and the handler
\* runs on.
TokenGranted(r) ==
    /\ pc[r] = "token"
    /\ \E o \in TokenOkOutcomes :
         /\ accessToken' = [accessToken EXCEPT ![r] = AccessTokenOf(o)]
         /\ issued' = IF o.access_token # None THEN issued + 1 ELSE issued
         /\ Replied(r, o)
         /\ Apply(r, AfterToken(req[r], AccessTokenOf(o)))
    /\ UNCHANGED <<req, jwtBuilt>>

\* The token exchange is rejected.
TokenFailed(r) ==
    /\ pc[r] = "token"
    /\ \E o \in FailureOutcomes :
         /\ Replied(r, o)
         /\ Apply(r, TokenCatch(req[r], AxiosError(o)))
    /\ UNCHANGED <<req, accessToken, jwtBuilt, issued>>

\* The first downstream call of r is answered 2xx.
FhirSucceeded(r) ==
    /\ pc[r] = "fhir"
    /\ \E o \in FhirOkOutcomes(req[r].route) :
         /\ Replied(r, o)
         /\ Apply(r, AfterFhir(req[r], o, accessToken[r]))
    /\ UNCHANGED <<req, accessToken, jwtBuilt, issued>>

\* The first downstream call of r is rejected.
FhirFailed(r) ==
    /\ pc[r] = "fhir"
    /\ \E o \in FailureOutcomes :
         /\ Replied(r, o)
         /\ Apply(r, RouteCatch(req[r], AxiosError(o)))
    /\ UNCHANGED <<req, accessToken, jwtBuilt, issued>>

\* The Binary read of GET /document/:documentId is answered 2xx.
BinarySucceeded(r) ==
    /\ pc[r] = "binary"
    /\ \E o \in BinaryOkOutcomes :
         /\ Replied(r, o)
         /\ Apply(r, BinaryRead(req[r], o))
    /\ UNCHANGED <<req, accessToken, jwtBuilt, issued>>

\* The Binary read is rejected.
BinaryFailed(r) ==
    /\ pc[r] = "binary"
    /\ \E o \in FailureOutcomes :
         /\ Replied(r, o)
         /\ Apply(r, RouteCatch(req[r], AxiosError(o)))
    /\ UNCHANGED <<req, accessToken, jwtBuilt, issued>>

\* The upstream stream piped by GET /bulk-download ends: pipe() ends res.
StreamEnded(r) ==
    /\ pc[r] = "stream"
    /\ pc' = [pc EXCEPT ![r] = "done"]
    /\ Replied(r, [kind |-> "stream_end"])
    /\ UNCHANGED <<req, accessToken, calls, res, jwtBuilt, issued>>

\* The upstream stream fails while it is piped: nothing listens for its
\* error and pipe() does not end res.
StreamFailed(r) ==
    /\ pc[r] = "stream"
    /\ pc' = [pc EXCEPT ![r] = "stalled"]
    /\ Replied(r, [kind |-> "stream_error"])
    /\ UNCHANGED <<req, accessToken, calls, res, jwtBuilt, issued>>

Next ==
    \E r \in Requests :
        \/ Receive(r)
        \/ TokenGranted(r)
        \/ TokenFailed(r)
        \/ FhirSucceeded(r)
        \/ FhirFailed(r)
        \/ BinarySucceeded(r)
        \/ BinaryFailed(r)
        \/ StreamEnded(r)
        \/ StreamFailed(r)

Spec == Init /\ [][Next]_vars

(* -------- the document routes alone, over every short documentUrl ------ *)
RoundTripInbound ==
    {[route |-> "POST /upload-url", documentUrl |-> Some(u),
      patientId |-> Some("P1"), encounterId |-> None] :
        u \in StringsUpTo(MaxUrlLen)}
    \cup {[route |-> "GET /document/:documentId", documentId |-> "d1"]}

ReceiveDocument(r) == ReceiveFrom(r, RoundTripInbound)

NextRoundTrip ==
    \E r \in Requests :
        \/ ReceiveDocument(r)
        \/ TokenGranted(r)
        \/ TokenFailed(r)
        \/ FhirSucceeded(r)
        \/ FhirFailed(r)
        \/ BinarySucceeded(r)
        \/ BinaryFailed(r)

SpecRoundTrip == Init /\ [][NextRoundTrip]_vars
(* ======================= the claims, C1 to C10 ======================== *)
\* What the claims speak of.
IsRejection(outcome) == outcome.kind \in {"http_error", "network_error"}
TokenReplied(r) == Len(replies[r]) >= 1
FhirCalls(r) == {k \in 1..Len(calls[r]) : calls[r][k].kind = "fhir"}
Answered(r) == pc[r] = "done" /\ Len(res[r]) >= 1
IsFailureResponse(response) ==
    /\ response.status >= 400
    /\ "success" \in DOMAIN response.body => response.body.success = FALSE

\* The token exchange of r failed in one of the three ways of the contract:
\* a non-2xx answer, a network error, or a 2xx body without access_token.
TokenExchangeFailed(r) ==
    /\ TokenReplied(r)
    /\ \/ IsRejection(replies[r][1])
       \/ replies[r][1].kind = "ok" /\ replies[r][1].access_token = None

\* C1: on every route, a request whose token exchange failed (non-2xx,
\* network error, or 2xx without access_token) issues no downstream FHIR
\* call and is answered with a failure response.
C1_FailedTokenExchangeIssuesNoFhirCall ==
    \A r \in Requests :
        TokenExchangeFailed(r) =>
            /\ FhirCalls(r) = {}
            /\ Answered(r)
            /\ IsFailureResponse(res[r][1])

\* A required parameter of the route is absent from the request.
MissingRequired(rq) ==
    \/ rq.route = "POST /upload-url"
         /\ (rq.documentUrl = None \/ rq.patientId = None)
    \/ rq.route = "GET /bulk-status" /\ rq.statusUrl = None
    \/ rq.route = "GET /bulk-download" /\ rq.fileUrl = None

\* C2: a request that lacks a required parameter issues no upstream call
\* at all, neither the token exchange nor a FHIR call, and its answer has
\* status 400.
C2_MissingParameterIssuesNoCall ==
    \A r \in Requests :
        pc[r] # "idle" /\ MissingRequired(req[r]) =>
            /\ calls[r] = <<>>
            /\ \A i \in 1..Len(res[r]) : res[r][i].status = 400

\* C3: every request that has arrived has performed exactly one token
\* exchange, its first call, with an assertion built for it alone; a
\* downstream call is issued only after that exchange was answered, and it
\* carries the token of that answer, never the token another request got.
C3_OneFreshTokenExchangePerRequest ==
    \A r \in Requests :
        pc[r] # "idle" =>
            /\ Len(calls[r]) >= 1
            /\ calls[r][1].kind = "token"
            /\ \A k \in 2..Len(calls[r]) : calls[r][k].kind = "fhir"
            /\ \A q \in Requests \ {r} :
                 pc[q] # "idle" =>
                    Get(calls[q][1].body).client_assertion.built
                        # Get(calls[r][1].body).client_assertion.built
            /\ \A k \in FhirCalls(r) :
                 /\ TokenReplied(r)
                 /\ replies[r][1].kind = "ok"
                 /\ calls[r][k].auth = replies[r][1].access_token
                 /\ \A q \in Requests \ {r} :
                      (/\ TokenReplied(q)
                       /\ replies[q][1].kind = "ok"
                       /\ replies[q][1].access_token # None)
                          => calls[r][k].auth # replies[q][1].access_token

\* Two requests have each issued a downstream call with a token.
C3_Witness ==
    \E r, q \in Requests :
        /\ r # q
        /\ FhirCalls(r) # {} /\ calls[r][2].auth # None
        /\ FhirCalls(q) # {} /\ calls[q][2].auth # None

\* C4: every response has the uniform envelope: success (true on success,
\* false on failure) and a message.
C4_UniformEnvelope ==
    \A r \in Requests :
        \A i \in 1..Len(res[r]) :
            /\ "success" \in DOMAIN res[r][i].body
            /\ "message" \in DOMAIN res[r][i].body
            /\ res[r][i].body.success = (res[r][i].status < 400)

\* The DocumentReference body gives no attachment url.
LacksAttachmentUrl(body) ==
    \/ body.content = None
    \/ Get(body.content) = <<>>
    \/ Get(body.content)[1].attachment = None
    \/ Get(Get(body.content)[1].attachment).url = None

\* The Binary body gives no data.
LacksData(body) == "data" \notin DOMAIN body

\* C5: on GET /document/:documentId, a DocumentReference without attachment
\* url is answered with the 'No Binary reference found' failure and a Binary
\* without data with the 'does not contain data' failure, never with the
\* generic 'Error retrieving document'.
C5_SpecificDataShapeFailures ==
    \A r \in Requests :
        req[r].route = "GET /document/:documentId" =>
            /\ (/\ Len(replies[r]) >= 2
                /\ replies[r][2].kind = "ok"
                /\ LacksAttachmentUrl(replies[r][2].data))
                  => /\ Answered(r)
                     /\ res[r][1].body.message
                            = "No Binary reference found in DocumentReference"
            /\ (/\ Len(replies[r]) >= 3
                /\ replies[r][3].kind = "ok"
                /\ LacksData(replies[r][3].data))
                  => /\ Answered(r)
                     /\ res[r][1].body.message
                            = "Binary resource does not contain data"
C7_UpstreamErrorBodyPassedThrough ==
    \A r \in Requests :
        \A k \in 1..Len(replies[r]) :
            (replies[r][k].kind = "http_error" /\ replies[r][k].data # "") =>
                /\ Answered(r)
                /\ res[r][1].status = 500
                /\ "error" \in DOMAIN res[r][1].body
                /\ res[r][1].body.error = replies[r][k].data

\* C8: a success response of GET /bulk-export carries, as statusUrl, the
\* Content-Location header of the upstream response.
C8_ExportSuccessCarriesStatusUrl ==
    \A r \in Requests :
        (/\ req[r].route = "GET /bulk-export"
         /\ Answered(r)
         /\ res[r][1].body.success = TRUE)
            => /\ replies[r][2].contentLocation # None
               /\ "statusUrl" \in DOMAIN res[r][1].body
               /\ res[r][1].body.statusUrl = Get(replies[r][2].contentLocation)

\* The header has the form .../<id>: a '/' followed by a non-empty id that
\* holds no '/'.
IdOfLocation(header) ==
    {SubSeq(header, i + 1, Len(header)) :
        i \in {j \in 1..(Len(header) - 1) :
                 /\ header[j] = "/"
                 /\ \A m \in (j + 1)..Len(header) : header[m] # "/"}}

\* The header is absent, empty, or ends in '/'.
YieldsNoId(location) ==
    \/ location = None
    \/ Get(location) = <<>>
    \/ Last(Get(location)) = "/"

\* C9: after a successful create of POST /upload-url, a Location header
\* .../<id> gives the response {success: true, documentId: <id>} with status
\* 200, and an absent header or one without an id gives the 500 response
\* 'Epic did not return a Document ID'.
C9_DocumentIdFromLocation ==
    \A r \in Requests :
        (/\ req[r].route = "POST /upload-url"
         /\ Len(replies[r]) >= 2
         /\ replies[r][2].kind = "ok")
            => LET location == replies[r][2].location
               IN  /\ Answered(r)
                   /\ Len(res[r]) = 1
                   /\ (location # None /\ IdOfLocation(Get(location)) # {})
                        => /\ res[r][1].status = 200
                           /\ res[r][1].body.success = TRUE
                           /\ {res[r][1].body.documentId}
                                  = IdOfLocation(Get(location))
                   /\ YieldsNoId(location)
                        => /\ res[r][1].status = 500
                           /\ res[r][1].body.success = FALSE
                           /\ res[r][1].body.message
                                  = "Epic did not return a Document ID"

\* An upload was answered with the id of its Location header.
C9_Witness ==
    \E r \in Requests :
        /\ req[r].route = "POST /upload-url"
        /\ Answered(r)
        /\ res[r][1].status = 200
        /\ res[r][1].body.documentId = <<"1", "2">>

\* Request up stored the data of its documentUrl with a successful create,
\* and request down read exactly that data from a Binary and answered.
RoundTrip(up, down) ==
    /\ req[up].route = "POST /upload-url"
    /\ Len(replies[up]) >= 2
    /\ replies[up][2].kind = "ok"
    /\ req[down].route = "GET /document/:documentId"
    /\ Len(replies[down]) >= 3
    /\ replies[down][3].kind = "ok"
    /\ "data" \in DOMAIN replies[down][3].data
    /\ replies[down][3].data.data
           = Get(calls[up][2].body).content[1].attachment.data

\* No surrogate of the string is unpaired.
RECURSIVE WellFormed(_)
WellFormed(s) ==
    IF s = <<>> THEN TRUE
    ELSE IF IsHigh(s[1])
         THEN Len(s) >= 2 /\ IsLow(s[2]) /\ WellFormed(SubSeq(s, 3, Len(s)))
    ELSE ~IsLow(s[1]) /\ WellFormed(Tail(s))

\* C10 as stated: for every documentUrl, the data POST /upload-url stores
\* is decoded by GET /document/:documentId back to that documentUrl.
C10_RoundTripEveryString ==
    \A up, down \in Requests :
        RoundTrip(up, down) =>
            /\ Answered(down)
            /\ res[down][1].status = 200
            /\ res[down][1].body.documentUrl = Get(req[up].documentUrl)

\* C10 as amended: the same for every documentUrl without an unpaired
\* surrogate.
C10_RoundTripWellFormed ==
    \A up, down \in Requests :
        RoundTrip(up, down) /\ WellFormed(Get(req[up].documentUrl)) =>
            /\ Answered(down)
            /\ res[down][1].status = 200
            /\ res[down][1].body.documentUrl = Get(req[up].documentUrl)

\* A documentUrl of a two-byte character and a surrogate pair goes round.
C10_Witness ==
    \E up, down \in Requests :
        /\ RoundTrip(up, down)
        /\ Get(req[up].documentUrl) \in {<<233, 104>>, <<55357, 56832>>}
        /\ Answered(down)
        /\ res[down][1].body.documentUrl = Get(req[up].documentUrl)

(* ======================= the claims, C11 to C19 ======================= *)
\* The inbound query string as it was written: every name=value pair, in
\* order.  The queries of the model hold unreserved characters only, so a
\* pair needs no percent-encoding.
InboundQueryString(q) == [i \in 1..Len(q) |-> <<q[i][1], <<q[i][2]>>>>]

\* C11: the query string GET /patient-search and GET /appointments send
\* upstream is the inbound query string: the same pairs with the same
\* values in the same order, repeated names included.
C11_QueryStringForwardedVerbatim ==
    \A r \in Requests :
        req[r].route \in {"GET /patient-search", "GET /appointments"} =>
            \A k \in FhirCalls(r) :
                calls[r][k].query = InboundQueryString(req[r].query)

\* C12 as stated: an access token obtained from a token exchange is presented on at
\* most one downstream FHIR call: no two downstream calls, of one request or
\* of two, carry the same token.
C12_TokenOnAtMostOneCall ==
    \A r, q \in Requests :
        \A k \in FhirCalls(r), m \in FhirCalls(q) :
            (<<r, k>> # <<q, m>> /\ calls[r][k].auth # None)
                => calls[r][k].auth # calls[q][m].auth

\* C12 as amended: a token is presented only on calls of the request that
\* obtained it, and on one call only, except that GET /document/:documentId
\* presents its token on both of its calls, the DocumentReference read and
\* the Binary read.
C12_TokenOnCallsOfOneRequest ==
    \A r, q \in Requests :
        \A k \in FhirCalls(r), m \in FhirCalls(q) :
            (/\ <<r, k>> # <<q, m>>
             /\ calls[r][k].auth # None
             /\ calls[r][k].auth = calls[q][m].auth)
                => /\ r = q
                   /\ req[r].route = "GET /document/:documentId"
                   /\ FhirCalls(r) = {2, 3}
                   /\ calls[r][k].auth = replies[r][1].access_token

\* A GET /document/:documentId has presented its token on both reads while
\* another request has presented a token of its own.
C12_Witness ==
    \E r, q \in Requests :
        /\ r # q
        /\ req[r].route = "GET /document/:documentId"
        /\ FhirCalls(r) = {2, 3}
        /\ calls[r][2].auth # None
        /\ calls[r][3].auth = calls[r][2].auth
        /\ FhirCalls(q) # {}
        /\ calls[q][2].auth # None

\* An upstream answer without the identity of the token it grants: what the
\* handler of a request can tell about the answer.
ReplyShape(o) ==
    IF o.kind = "ok" /\ "access_token" \in DOMAIN o
    THEN [kind |-> "ok", granted |-> o.access_token # None]
    ELSE o

\* The upstream calls of r and q were answered alike, one by one.
SameReplies(r, q) ==
    /\ Len(replies[r]) = Len(replies[q])
    /\ \A i \in 1..Len(replies[r]) :
         /\ replies[r][i].kind = replies[q][i].kind
         /\ ReplyShape(replies[r][i]) = ReplyShape(replies[q][i])

\* C13: in every interleaving of the requests, each downstream call carries
\* what the token exchange of its own request returned, and the outcome of
\* a request is decided by its own input and the answers to its own calls:
\* two requests with the same input whose calls were answered alike stand at
\* the same point and have been sent the same responses.
C13_RequestsAreIsolated ==
    /\ \A r \in Requests :
         \A k \in FhirCalls(r) :
            /\ TokenReplied(r)
            /\ replies[r][1].kind = "ok"
            /\ calls[r][k].auth = replies[r][1].access_token
            /\ calls[r][k].auth = accessToken[r]
    /\ \A r, q \in Requests :
         (/\ pc[r] # "idle" /\ pc[q] # "idle"
          /\ req[r].route = req[q].route
          /\ req[r] = req[q]
          /\ SameReplies(r, q))
            => pc[r] = pc[q] /\ res[r] = res[q]

\* Two GET /document/:documentId ran interleaved (the later arrival was
\* granted its token first) and both were answered with the document.
C13_Witness ==
    /\ req[1].route = "GET /document/:documentId"
    /\ req[2].route = req[1].route
    /\ req[2] = req[1]
    /\ Len(replies[1]) = 3 /\ Len(replies[2]) = 3
    /\ replies[1][1].kind = "ok" /\ replies[1][1].access_token = Some(2)
    /\ replies[2][1].kind = "ok" /\ replies[2][1].access_token = Some(1)
    /\ SameReplies(1, 2)
    /\ Answered(1) /\ Answered(2)
    /\ res[1][1].status = 200
    /\ calls[1][3].auth = Some(2)
    /\ calls[2][3].auth = Some(1)

\* Every upstream call r issued has completed, with success or failure, and
\* so has the upstream stream if r was piping one.
UpstreamSettled(r) ==
    /\ pc[r] # "idle"
    /\ Len(replies[r]) >= Len(calls[r])
    /\ (/\ req[r].route = "GET /bulk-download"
        /\ Len(replies[r]) >= 2
        /\ replies[r][2].kind = "ok")
         => replies[r][Len(replies[r])].kind \in {"stream_end", "stream_error"}

\* C14: a request all of whose upstream calls have completed has received
\* its response, whole: also a GET /bulk-download whose upstream stream
\* failed after streaming had started.  (Every handler runs on as soon as
\* the call it awaits completes, so a request that is never answered is one
\* that stands unanswered with nothing left to complete.)
C14_SettledRequestIsAnswered ==
    \A r \in Requests : UpstreamSettled(r) => Answered(r)

\* The request lacks a required parameter as the handlers test it: the
\* parameter is absent or empty.
LacksRequired(rq) ==
    \/ rq.route = "POST /upload-url"
         /\ (FalsySeq(rq.documentUrl) \/ FalsyStr(rq.patientId))
    \/ rq.route = "GET /bulk-status" /\ FalsyStr(rq.statusUrl)
    \/ rq.route = "GET /bulk-download" /\ FalsyStr(rq.fileUrl)

\* C15: a failure response has status 400 when its request lacks a required
\* parameter and status 500 otherwise; no failure has another status.
C15_FailureStatusIs500Or400 ==
    \A r \in Requests :
        \A i \in 1..Len(res[r]) :
            res[r][i].status # 200 /\ res[r][i].status # 201 =>
                res[r][i].status = IF LacksRequired(req[r]) THEN 400 ELSE 500

\* The token exchange requests issued so far, as <<request, call number>>.
TokenCalls ==
    UNION {{<<r, k>> : k \in {j \in 1..Len(calls[r]) : calls[r][j].kind = "token"}} :
             r \in Requests}

AssertionOf(c) == Get(calls[c[1]][c[2]].body).client_assertion

\* Each of the assertions built so far was submitted in exactly one token
\* exchange request.
EachAssertionSubmittedOnce ==
    \A n \in 1..jwtBuilt :
        Cardinality({c \in TokenCalls : AssertionOf(c).built = n}) = 1

\* C16: any two assertions that were built, for one request after another
\* or for concurrent requests, carry distinct jti values, and each assertion
\* is submitted in exactly one token exchange request.
C16_DistinctJtiSubmittedOnce ==
    /\ \A c, d \in TokenCalls :
         c # d => AssertionOf(c).jti # AssertionOf(d).jti
    /\ EachAssertionSubmittedOnce

\* The attachment url of a DocumentReference body that has one.
AttachmentUrl(body) == Get(Get(Get(body.content)[1].attachment).url)

\* The DocumentReference body gives an attachment url that is not empty.
HasAttachmentUrl(body) ==
    ~LacksAttachmentUrl(body) /\ AttachmentUrl(body) # ""

\* C17: on GET /document/:documentId the Binary read, the third call, is
\* issued only once the DocumentReference read of the same request was
\* answered 2xx with a non-empty attachment url, and it is a GET of that
\* url under the FHIR base; when the DocumentReference read is rejected or
\* gives no attachment url, the request issues no third call.
C17_BinaryReadFollowsDocumentReference ==
    \A r \in Requests :
        req[r].route = "GET /document/:documentId" =>
            /\ Len(calls[r]) <= 3
            /\ Len(calls[r]) = 3 =>
                 /\ Len(replies[r]) >= 2
                 /\ replies[r][2].kind = "ok"
                 /\ HasAttachmentUrl(replies[r][2].data)
                 /\ calls[r][3].method = "GET"
                 /\ calls[r][3].base = "R4"
                 /\ calls[r][3].path = <<AttachmentUrl(replies[r][2].data)>>
            /\ (/\ Len(replies[r]) >= 2
                /\ \/ IsRejection(replies[r][2])
                   \/ ~HasAttachmentUrl(replies[r][2].data))
                 => Len(calls[r]) = 2 /\ pc[r] = "done"

\* A Binary read was issued for the url of the DocumentReference.
C17_Witness ==
    \E r \in Requests :
        /\ req[r].route = "GET /document/:documentId"
        /\ Len(calls[r]) = 3
        /\ calls[r][3].path = <<"Binary/b1">>
        /\ replies[r][2].kind = "ok"

\* The Resource Gateway operation of each route: its method, the version
\* base it is built on ("" for a URL the caller supplies) and its path.
OperationOf(rq) ==
    CASE rq.route = "GET /patient" ->
            [method |-> "GET", base |-> "R4",
             path |-> <<"Patient", "erXuFYUfucBZaryVksYEcMg3">>]
      [] rq.route = "POST /patient-match" ->
            [method |-> "POST", base |-> "R4", path |-> <<"Patient", "$match">>]
      [] rq.route = "GET /patient-search" ->
            [method |-> "GET", base |-> "R4", path |-> <<"Patient">>]
      [] rq.route = "GET /appointments" ->
            [method |-> "GET", base |-> "R4", path |-> <<"Appointment">>]
      [] rq.route = "GET /scheduled-surgery/:id" ->
            [method |-> "GET", base |-> "R4", path |-> <<"Appointment", rq.id>>]
      [] rq.route = "POST /appointment-find" ->
            [method |-> "POST", base |-> "STU3", path |-> <<"Appointment", "$find">>]
      [] rq.route = "POST /observation" ->
            [method |-> "POST", base |-> "R4", path |-> <<"Observation">>]
      [] rq.route = "GET /bulk-export" ->
            [method |-> "GET", base |-> "R4",
             path |-> <<"Group",
                        IF rq.groupId = None THEN "default-group-id"
                        ELSE Get(rq.groupId),
                        "$export">>]
      [] rq.route = "GET /bulk-status" ->
            [method |-> "GET", base |-> "", path |-> <<Get(rq.statusUrl)>>]
      [] rq.route = "GET /bulk-download" ->
            [method |-> "GET", base |-> "", path |-> <<Get(rq.fileUrl)>>]
      [] rq.route = "POST /upload-url" ->
            [method |-> "POST", base |-> "R4", path |-> <<"DocumentReference">>]
      [] rq.route = "GET /document/:documentId" ->
            [method |-> "GET", base |-> "R4",
             path |-> <<"DocumentReference", rq.documentId>>]

\* The token exchange of r gave a token and r lacks no required parameter.
MayProceed(r) ==
    /\ TokenReplied(r)
    /\ replies[r][1].kind = "ok"
    /\ replies[r][1].access_token # None
    /\ ~LacksRequired(req[r])

\* r has been sent a success response.
Succeeded(r) ==
    /\ Len(res[r]) >= 1
    /\ res[r][1].status \in {200, 201}
    /\ pc[r] \in {"done", "stream"}

\* C18: a request whose token exchange succeeded and whose parameters are
\* there issues the one operation of its route, as its first downstream
\* call, with the method, base and path of that operation, and no other
\* call, except that GET /document/:documentId goes on to the Binary read; a
\* request that succeeds has issued exactly one downstream call (exactly two
\* on GET /document/:documentId).  The STU3 base is used by POST
\* /appointment-find only.  A success of POST /observation has status 201
\* and a success of any other route status 200.
C18_OneOperationPerRoute ==
    \A r \in Requests :
        /\ MayProceed(r) =>
             /\ 2 \in FhirCalls(r)
             /\ calls[r][2].method = OperationOf(req[r]).method
             /\ calls[r][2].base = OperationOf(req[r]).base
             /\ calls[r][2].path = OperationOf(req[r]).path
             /\ FhirCalls(r) \subseteq
                    IF req[r].route = "GET /document/:documentId"
                    THEN {2, 3} ELSE {2}
             /\ Succeeded(r) =>
                    FhirCalls(r) = IF req[r].route = "GET /document/:documentId"
                                   THEN {2, 3} ELSE {2}
        /\ \A k \in FhirCalls(r) :
             calls[r][k].base = "STU3" <=> req[r].route = "POST /appointment-find"
        /\ Succeeded(r) =>
             res[r][1].status = IF req[r].route = "POST /observation"
                                THEN 201 ELSE 200

\* A POST /observation was answered 201 and a POST /appointment-find has
\* issued its call on the STU3 base.
C18_Witness ==
    \E r, q \in Requests :
        /\ req[r].route = "POST /observation"
        /\ Succeeded(r)
        /\ res[r][1].status = 201
        /\ req[q].route = "POST /appointment-find"
        /\ MayProceed(q)
        /\ calls[q][2].base = "STU3"

\* C19: a request is sent at most one response, on every path of its
\* handler and of the authenticate middleware, and once it has been sent one
\* it issues no call; when authenticate has sent its failure response the
\* route handler does not run: that response stays the only one and the
\* token exchange the only call.
C19_AnsweredAtMostOnce ==
    \A r \in Requests :
        /\ Len(res[r]) <= 1
        /\ (Len(res[r]) = 1 /\ pc[r] # "stream") => pc[r] \in {"done", "stalled"}
        /\ pc[r] \in {"done", "stalled"} => Len(res[r]) = 1
        /\ (/\ req[r].route \in UploadsRoutes
            /\ TokenReplied(r)
            /\ IsRejection(replies[r][1]))
             => /\ Len(calls[r]) = 1
                /\ Len(replies[r]) = 1
                /\ Len(res[r]) = 1
                /\ res[r][1].status = 500
                /\ res[r][1].body.message = "Authentication failed"

\* authenticate has failed a POST /upload-url that lacks a parameter too:
\* the 400 of the route handler was not sent on top.
C19_Witness ==
    \E r \in Requests :
        /\ req[r].route = "POST /upload-url"
        /\ LacksRequired(req[r])
        /\ TokenReplied(r)
        /\ IsRejection(replies[r][1])
        /\ Len(res[r]) = 1
        /\ res[r][1].body.message = "Authentication failed"
====
